---- MODULE Spec2Model ----
(***************************************************************************)
(* A model of dimandocs: configuration loading, the directory scan, the    *)
(* metadata cache, the directory trees and the lazily loaded document      *)
(* contents served over HTTP.                                              *)
(*                                                                         *)
(* A Go string is modelled as a sequence of tokens.  A token stands for a  *)
(* run of bytes that the program never looks inside: a path segment, a     *)
(* letter, "/", "\n", " ", "#".  A path such as sub/a.md is the string     *)
(* <<"sub", "/", "a.md">>.                                                 *)
(***************************************************************************)
EXTENDS Integers, Sequences, FiniteSets, TLC

VARIABLES
    pc,             \* position of the startup sequence main -> Initialize -> Start
    Config,         \* a.Config: [Directories, IgnorePatterns]
    IgnoreRegexes,  \* a.IgnoreRegexes
    FileRegexes,    \* a.FileRegexes: configured path -> compiled pattern
    UseCache,       \* a.UseCache
    Documents,      \* a.Documents
    cacheFile,      \* .dimandocs-cache.json: "missing", "malformed" or its parsed value
    diskFull,       \* whether writing the cache file fails
    unreadable,     \* files and directories of the file system that cannot be read
    flaky,          \* files whose reads fail now and then
    initErr,        \* what Initialize returned: "none", "nil" or "error"
    scanLog,        \* per scanDirectory call: its root, the paths its callback saw,
                    \* what it returned and the range of Documents it appended
    loaded,         \* what loadFromCache returned in this run: "none", "nil", "error"
    saved,          \* whether saveToCache returned nil in this run
    trees,          \* the results of the calls of BuildDirectoryTrees so far
    task            \* serving: the background loader and the request handlers, each
                    \* with its position, its registers and, once done, its answer

vars == <<pc, Config, IgnoreRegexes, FileRegexes, UseCache, Documents, cacheFile,
          diskFull, unreadable, flaky, initErr, scanLog, loaded, saved, trees,
          task>>

----------------------------------------------------------------------------
(* Bounds of the model *)

MaxDirs == 2        \* configured directories
MaxIgnore == 1      \* ignore patterns
MaxBuilds == 2      \* calls of BuildDirectoryTrees
MaxRequests == 2    \* HTTP requests served after the listener opened
MaxLines == 4       \* lines of a file whose content is drawn freely

----------------------------------------------------------------------------
(* A value that is used more than once is bound to a variable with          *)
(* x \in {value}, so that it is computed once: The picks the one element.   *)

The(S) == CHOOSE v \in S : TRUE

----------------------------------------------------------------------------
(* strings *)

HasPrefix(s, p) ==
    \E a \in {s}, b \in {p} : Len(b) <= Len(a) /\ SubSeq(a, 1, Len(b)) = b

TrimPrefix(s, p) ==
    The({ IF HasPrefix(a, b) THEN SubSeq(a, Len(b) + 1, Len(a)) ELSE a :
            a \in {s}, b \in {p} })

Contains(s, sub) ==
    \E a \in {s}, b \in {sub} :
        \E i \in 0..(Len(a) - Len(b)) : SubSeq(a, i + 1, i + Len(b)) = b

\* unicode.ToLower on the letters of the model's alphabet
LowerRune(c) ==
    CASE c = "S" -> "s"
      [] c = "A" -> "a"
      [] c = "README.md" -> "readme.md"
      [] OTHER -> c

ToLower(s) == The({ [i \in 1..Len(a) |-> LowerRune(a[i])] : a \in {s} })

IsSpace(c) == c \in {" ", "\n", "\t"}

\* the number of leading white-space tokens of a
RECURSIVE LeadingSpace(_, _)
LeadingSpace(a, i) ==
    IF i < Len(a) /\ IsSpace(a[i + 1]) THEN LeadingSpace(a, i + 1) ELSE i

\* the number of trailing white-space tokens of a
RECURSIVE TrailingSpace(_, _)
TrailingSpace(a, i) ==
    IF i < Len(a) /\ IsSpace(a[Len(a) - i]) THEN TrailingSpace(a, i + 1) ELSE i

TrimSpace(s) ==
    The({ IF LeadingSpace(a, 0) = Len(a) THEN <<>>
          ELSE SubSeq(a, LeadingSpace(a, 0) + 1, Len(a) - TrailingSpace(a, 0)) :
            a \in {s} })

\* strings.Split(s, sep) for a one-token separator: always at least one piece
RECURSIVE SplitFrom(_, _, _, _)
SplitFrom(a, sep, i, pieces) ==
    IF i > Len(a) THEN pieces
    ELSE SplitFrom(a, sep, i + 1,
                   IF a[i] = sep THEN Append(pieces, <<>>)
                   ELSE [pieces EXCEPT ![Len(pieces)] = Append(@, a[i])])

Split(s, sep) == The({ SplitFrom(a, sep, 1, <<<<>>>>) : a \in {s} })

\* strings.Join(parts, sep)
RECURSIVE JoinFrom(_, _, _, _)
JoinFrom(parts, sep, i, out) ==
    IF i > Len(parts) THEN out
    ELSE JoinFrom(parts, sep, i + 1, IF i = 1 THEN parts[i] ELSE out \o sep \o parts[i])

Join(parts, sep) == The({ JoinFrom(a, sep, 1, <<>>) : a \in {parts} })

----------------------------------------------------------------------------
(* path/filepath *)

IsAbs(p) == \E a \in {p} : a # <<>> /\ a[1] = "/"

\* the segments of a path, "." and empty segments dropped
Segs(p) == SelectSeq(p, LAMBDA t : t # "/" /\ t # ".")

\* the segments with "/" between them
Interleave(segs) ==
    The({ [i \in 1..(2 * Len(a) - 1) |-> IF i % 2 = 1 THEN a[(i + 1) \div 2] ELSE "/"] :
            a \in {segs} })

\* the clean path with these segments
MkPath(abs, segs) ==
    The({ IF abs THEN <<"/">> \o Interleave(a)
          ELSE IF a = <<>> THEN <<".">>
          ELSE Interleave(a) : a \in {segs} })

\* filepath.Clean on segments: a ".." removes the segment before it, stays in
\* front of a relative path and is dropped at the root of an absolute one
RECURSIVE CleanSegs(_, _, _, _)
CleanSegs(abs, segs, i, out) ==
    IF i > Len(segs) THEN out
    ELSE CleanSegs(abs, segs, i + 1,
                   IF segs[i] # ".." THEN Append(out, segs[i])
                   ELSE IF out # <<>> /\ out[Len(out)] # ".."
                   THEN SubSeq(out, 1, Len(out) - 1)
                   ELSE IF abs THEN out
                   ELSE Append(out, ".."))

\* filepath.Clean
Clean(p) ==
    The({ The({ MkPath(abs, CleanSegs(abs, a, 1, <<>>)) : a \in {Segs(q)}, abs \in {IsAbs(q)} }) :
            q \in {p} })

\* filepath.Join(dir, name)
JoinPath(dir, name) == Clean(dir \o <<"/", name>>)

\* filepath.Dir
Dir(p) ==
    The({ The({ MkPath(abs, SubSeq(a, 1, Len(a) - 1)) :
                    a \in {Segs(Clean(q))}, abs \in {IsAbs(q)} }) : q \in {p} })

\* filepath.Base
Base(p) ==
    The({ The({ IF a # <<>> THEN <<a[Len(a)]>>
                ELSE IF abs THEN <<"/">> ELSE <<".">> :
                    a \in {Segs(Clean(q))}, abs \in {IsAbs(q)} }) : q \in {p} })

RECURSIVE CommonLen(_, _, _)
CommonLen(a, b, k) ==
    IF k < Len(a) /\ k < Len(b) /\ a[k + 1] = b[k + 1] THEN CommonLen(a, b, k + 1) ELSE k

\* the result of filepath.Rel for the segments b of the base and t of the target
RelSegs(b, t, k) ==
    [ok |-> \A i \in (k + 1)..Len(b) : b[i] # "..",
     path |-> MkPath(FALSE, [i \in 1..(Len(b) - k) |-> ".."] \o SubSeq(t, k + 1, Len(t)))]

\* filepath.Rel(basepath, targpath): [ok, path]
Rel(basepath, targpath) ==
    The({ IF mixed THEN [ok |-> FALSE, path |-> <<>>]
          ELSE IF RelSegs(b, t, CommonLen(b, t, 0)).ok
          THEN RelSegs(b, t, CommonLen(b, t, 0))
          ELSE [ok |-> FALSE, path |-> <<>>] :
            b \in {Segs(Clean(basepath))}, t \in {Segs(Clean(targpath))},
            mixed \in {IsAbs(basepath) # IsAbs(targpath)} })

----------------------------------------------------------------------------
(* The file system the program runs on *)

WorkingDir == <<"/", "w", "/", "d">>

\* filepath.Abs
Abs(p) ==
    The({ Clean(IF IsAbs(q) THEN q ELSE WorkingDir \o <<"/">> \o q) : q \in {p} })

\* directories and files, by the segments of their absolute paths
FsDirs == { <<>>, <<"w">>, <<"w", "d">>, <<"w", "d", "sub">>, <<"w", "e">>, <<"x">> }

FsFiles == { <<"w", "d", "README.md">>,
             <<"w", "d", "sub", "a.md">>,
             <<"w", "d", "sub", "b.txt">>,
             <<"w", "e", "a.md">>,
             <<"w", "top.md">>,
             <<"x", "readme.md">> }

\* the names of the file system in the byte order ReadDir sorts them in
NameOrder == <<"README.md", "a.md", "b.txt", "d", "e", "readme.md", "sub", "top.md",
               "w", "x">>

\* the bytes of a file, by the segments of its absolute path
FileText(f) ==
    CASE f = <<"w", "d", "README.md">> ->
            <<"#", " ", "S", "a", "\n", "#", "#", " ", "Overview", "\n", "a", " ", "b",
              "\n", "b", "\n", "\n", "#", " ", "b">>
      [] f = <<"w", "d", "sub", "a.md">> -> <<"b", "\n", "#", " ", "xFF", "a">>
      [] f = <<"w", "d", "sub", "b.txt">> -> <<"s", "a">>
      [] f = <<"w", "e", "a.md">> -> <<>>
      [] f = <<"w", "top.md">> -> <<" ", "#", " ", "A", "\n", "#", "#", " ", "Overview",
                                    " ", "\n", "\n", " ", "s", " ">>
      [] f = <<"x", "readme.md">> -> <<"#", " ", "A", "b">>
      [] OTHER -> <<>>

\* the segments of the absolute path of p
AbsSegs(p) == Segs(Abs(p))

\* os.Lstat of the file system entry with absolute segments a
FsKind(a) == IF a \in FsDirs THEN "dir" ELSE IF a \in FsFiles THEN "file" ELSE "none"

\* readDirNames: the sorted names in the directory with absolute segments a
ReadDirNames(a) == SelectSeq(NameOrder, LAMBDA n : Append(a, n) \in FsDirs \cup FsFiles)

----------------------------------------------------------------------------
(* regexp: a compiled pattern is [kind, arg]; MatchString gives what the   *)
(* pattern of that shape matches                                           *)

\* the extension of a name
NameExt(n) ==
    CASE n \in {"README.md", "readme.md", "a.md", "top.md"} -> "md"
      [] n = "b.txt" -> "txt"
      [] OTHER -> ""

ReExact(p) == [kind |-> "exact", arg |-> p]      \* ^p$
ReTree(p) == [kind |-> "tree", arg |-> p]        \* ^p(/.*)?$
ReUnder(p) == [kind |-> "under", arg |-> p]      \* ^p/.*
ReSeg(n) == [kind |-> "seg", arg |-> <<n>>]      \* .*/n(/.*)?$
ReExt(e) == [kind |-> "ext", arg |-> <<e>>]      \* \.e$
ReReadme == [kind |-> "readme", arg |-> <<>>]    \* ^(?i)(readme\.md)$

\* regexp.MatchString
MatchString(regex, str) ==
    \E re \in {regex}, s \in {str} :
        CASE re.kind = "exact" -> s = re.arg
          [] re.kind = "tree" -> s = re.arg \/ HasPrefix(s, re.arg \o <<"/">>)
          [] re.kind = "under" -> HasPrefix(s, re.arg \o <<"/">>)
          [] re.kind = "seg" ->
                \E i \in 1..(Len(s) - 1) :
                    /\ s[i] = "/"
                    /\ s[i + 1] = re.arg[1]
                    /\ (i + 1 = Len(s) \/ s[i + 2] = "/")
          [] re.kind = "ext" -> s # <<>> /\ NameExt(s[Len(s)]) = re.arg[1]
          [] re.kind = "readme" -> ToLower(s) = <<"readme.md">>
          [] OTHER -> FALSE

\* file_pattern omitted in the configuration file
NoPattern == [kind |-> "none", arg |-> <<>>]

----------------------------------------------------------------------------
(* documents *)

Document(title, path, content, relPath, dirName, sourceDir, sourceName, absPath, overview) ==
    [Title |-> title, Path |-> path, Content |-> content, RelPath |-> relPath,
     DirName |-> dirName, SourceDir |-> sourceDir, SourceName |-> sourceName,
     AbsPath |-> absPath, Overview |-> overview]

\* one iteration of the loop of extractOverviewParagraph on the loop state
\* o = [found, para, stop]
OverviewStep(line, o) ==
    The({ IF HasPrefix(trimmedLine, <<"#", "#", " ", "Overview">>)
          THEN [o EXCEPT !.found = TRUE]
          ELSE IF ~o.found THEN o
          ELSE IF trimmedLine = <<>> /\ o.para = <<>> THEN o
          ELSE IF (HasPrefix(trimmedLine, <<"#">>) \/ trimmedLine = <<>>) /\ o.para # <<>>
          THEN [o EXCEPT !.stop = TRUE]
          ELSE IF trimmedLine # <<>> THEN [o EXCEPT !.para = Append(@, trimmedLine)]
          ELSE o : trimmedLine \in {TrimSpace(line)} })

RECURSIVE OverviewLoop(_, _, _)
OverviewLoop(lines, i, o) ==
    IF i > Len(lines) \/ o.stop THEN o.para
    ELSE OverviewLoop(lines, i + 1, The({ OverviewStep(lines[i], v) : v \in {o} }))

extractOverviewParagraph(content) ==
    Join(The({ OverviewLoop(lines, 1, [found |-> FALSE, para |-> <<>>, stop |-> FALSE]) :
                lines \in {Split(content, "\n")} }), <<" ">>)

\* the title loop of processFile: the first line that starts with "# "
RECURSIVE TitleLoop(_, _, _)
TitleLoop(lines, i, title) ==
    IF i > Len(lines) THEN title
    ELSE IF HasPrefix(lines[i], <<"#", " ">>) THEN TrimPrefix(lines[i], <<"#", " ">>)
    ELSE TitleLoop(lines, i + 1, title)

\* the title of processFile
TitleOf(content, dirName) ==
    The({ IF Contains(c, <<"#", " ">>)
          THEN The({ TitleLoop(lines, 1, d) : lines \in {Split(c, "\n")} })
          ELSE d : c \in {content}, d \in {dirName} })

\* the "../" rewrite of processFile
StripClimb(relAbsDir) ==
    The({ IF HasPrefix(r, <<"..", "/">>)
          THEN <<"/">> \o TrimPrefix(r, <<"..", "/">>)
          ELSE r : r \in {relAbsDir} })

\* AbsPath of processFile: the containing directory relative to the working
\* directory, a leading "../" replaced by "/"
DisplayDir(path) == StripClimb(Rel(WorkingDir, Dir(Abs(path))).path)

\* dirName of processFile
DirNameOf(relPath, filename) ==
    The({ IF dir0 = <<".">> \/ dir0 = <<"Root">> THEN f ELSE dir0 \o <<"/">> \o f :
            dir0 \in {Dir(relPath)}, f \in {filename} })

\* the Document processFile appends for a file it could read
NewDocument(path, rootDir, sourceName, content) ==
    The({ The({ Document(TitleOf(c, dirName), p, c, relPath, dirName, root, sourceName,
                         DisplayDir(p), extractOverviewParagraph(c)) :
                    dirName \in {DirNameOf(relPath, Base(p))} }) :
            p \in {path}, c \in {content}, root \in {rootDir},
            relPath \in {Rel(rootDir, path).path} })

----------------------------------------------------------------------------
(* configuration *)

DirectoryConfig(path, name, pattern) ==
    [Path |-> path, Name |-> name, FilePattern |-> pattern]

\* the directory entries a configuration file is drawn from
DirChoices ==
    { DirectoryConfig(<<".">>, <<"A">>, ReExt("md")),
      DirectoryConfig(<<".">>, <<"B">>, NoPattern),
      DirectoryConfig(<<"sub">>, <<"A">>, ReExt("md")),
      DirectoryConfig(<<"sub">>, <<"B">>, ReExt("txt")),
      DirectoryConfig(<<"..", "/", "e">>, <<"A">>, ReExt("md")),
      DirectoryConfig(<<"/", "x">>, <<"B">>, NoPattern),
      DirectoryConfig(<<"..">>, <<"B">>, ReExt("md")),
      DirectoryConfig(<<"nope">>, <<"A">>, ReExt("md")) }

\* the ignore patterns a configuration file is drawn from
IgnoreChoices ==
    { ReSeg("sub"), ReTree(<<"sub">>), ReExact(<<"sub">>), ReUnder(<<"sub">>),
      ReExt("md"), ReExact(<<".">>) }

\* the sets of unreadable files and directories a run may meet
UnreadableChoices == { {}, {<<"w", "d", "sub", "a.md">>}, {<<"w", "d", "sub">>} }

SeqsUpTo(S, n) == UNION { [1..k -> S] : k \in 0..n }

\* CompileFilePattern with a plausible slip: the default is the pattern of the
\* built-in configuration
CompileFilePattern_DefaultMd(pattern) ==
    The({ IF pat = NoPattern THEN ReExt("md") ELSE pat : pat \in {pattern} })

\* regexp.Compile of a file pattern, "" replaced by the default (LoadConfig)
CompileFilePattern(pattern) ==
    The({ IF pat = NoPattern THEN ReReadme ELSE pat : pat \in {pattern} })

\* the map LoadConfig fills in configuration order: a later entry with the same
\* Path overwrites an earlier one
CompileFileRegexes(dirs) ==
    [p \in {dirs[i].Path : i \in 1..Len(dirs)} |->
        CompileFilePattern(dirs[CHOOSE i \in 1..Len(dirs) :
                                    /\ dirs[i].Path = p
                                    /\ \A j \in (i + 1)..Len(dirs) : dirs[j].Path # p
                               ].FilePattern)]

----------------------------------------------------------------------------
(* the scan *)

\* a.shouldIgnorePath, regexes being a.IgnoreRegexes
shouldIgnorePath(regexes, path) ==
    \E rs \in {regexes}, p \in {path} : \E i \in 1..Len(rs) : MatchString(rs[i], p)

\* a.processFile on the walk state st = [docs, visited, ret]; ctx holds the
\* arguments of scanDirectory, a.IgnoreRegexes and the unreadable paths
processFile(st, path, ctx) ==
    The({ IF a \in ctx.unread
          THEN st
          ELSE [st EXCEPT !.docs = Append(@, NewDocument(path, ctx.rootDir,
                                                         ctx.sourceName, FileText(a)))] :
            a \in {AbsSegs(path)} })

\* WalkFn with a plausible slip: an ignored directory is not skipped
WalkFn_NoSkipDir(st, path, isDir, err, ctx) ==
    IF err THEN [st EXCEPT !.visited = Append(@, path), !.ret = "err"]
    ELSE IF shouldIgnorePath(ctx.ignore, path)
    THEN [st EXCEPT !.visited = Append(@, path), !.ret = "nil"]
    ELSE IF ~isDir /\ MatchString(ctx.fileRegex, Base(path))
    THEN processFile([st EXCEPT !.visited = Append(@, path), !.ret = "nil"], path, ctx)
    ELSE [st EXCEPT !.visited = Append(@, path), !.ret = "nil"]

\* WalkFn with a plausible slip: the file pattern is matched against the path
\* instead of the file's name
WalkFn_MatchPath(st, path, isDir, err, ctx) ==
    IF err THEN [st EXCEPT !.visited = Append(@, path), !.ret = "err"]
    ELSE IF shouldIgnorePath(ctx.ignore, path)
    THEN [st EXCEPT !.visited = Append(@, path),
                    !.ret = IF isDir THEN "skipdir" ELSE "nil"]
    ELSE IF ~isDir /\ MatchString(ctx.fileRegex, path)
    THEN processFile([st EXCEPT !.visited = Append(@, path), !.ret = "nil"], path, ctx)
    ELSE [st EXCEPT !.visited = Append(@, path), !.ret = "nil"]

\* WalkFn with a plausible slip: the error of processFile is returned to the
\* walk instead of being logged
WalkFn_ReturnReadError(st, path, isDir, err, ctx) ==
    IF err THEN [st EXCEPT !.visited = Append(@, path), !.ret = "err"]
    ELSE IF shouldIgnorePath(ctx.ignore, path)
    THEN [st EXCEPT !.visited = Append(@, path),
                    !.ret = IF isDir THEN "skipdir" ELSE "nil"]
    ELSE IF ~isDir /\ MatchString(ctx.fileRegex, Base(path))
    THEN processFile([st EXCEPT !.visited = Append(@, path),
                                !.ret = IF AbsSegs(path) \in ctx.unread THEN "err" ELSE "nil"],
                     path, ctx)
    ELSE [st EXCEPT !.visited = Append(@, path), !.ret = "nil"]

\* the callback scanDirectory hands to filepath.Walk; ret is what it returns:
\* "nil", "skipdir" or "err"
WalkFn(st, path, isDir, err, ctx) ==
    IF err THEN [st EXCEPT !.visited = Append(@, path), !.ret = "err"]
    ELSE IF shouldIgnorePath(ctx.ignore, path)
    THEN [st EXCEPT !.visited = Append(@, path),
                    !.ret = IF isDir THEN "skipdir" ELSE "nil"]
    ELSE IF ~isDir /\ MatchString(ctx.fileRegex, Base(path))
    THEN processFile([st EXCEPT !.visited = Append(@, path), !.ret = "nil"], path, ctx)
    ELSE [st EXCEPT !.visited = Append(@, path), !.ret = "nil"]

\* the paths of the entries of the directory path, whose absolute segments are
\* a, in the sorted order of their names
Entries(path, a) ==
    The({ [i \in 1..Len(names) |-> JoinPath(path, names[i])] :
            names \in {ReadDirNames(a)} })

\* filepath.Walk's traversal as a loop over the paths still to visit (the next
\* one first): the callback on the path, then, for a directory the callback
\* did not skip, its entries in sorted order; an error ends the walk
RECURSIVE WalkLoop(_, _, _)
WalkLoop(st, pending, ctx) ==
    IF pending = <<>> THEN st
    ELSE The({ The({ The({ IF st1.ret = "err" THEN st1
                           ELSE WalkLoop([st1 EXCEPT !.ret = "nil"],
                                         (IF kind = "dir" /\ st1.ret = "nil"
                                          THEN Entries(path, a) ELSE <<>>)
                                         \o Tail(pending), ctx) :
                        st1 \in {WalkFn(st, path, kind = "dir",
                                        kind = "none" \/ (kind = "dir" /\ a \in ctx.unread),
                                        ctx)} }) :
                    kind \in {FsKind(a)} }) :
                path \in {pending[1]}, a \in {AbsSegs(pending[1])} })

\* a.scanDirectory: the documents filepath.Walk appends to docs, the paths
\* the callback saw, and what the walk returned
scanDirectory(docs, rootDir, sourceName, fileRegex, ignore, unread) ==
    WalkLoop([docs |-> docs, visited |-> <<>>, ret |-> "nil"], <<rootDir>>,
             [rootDir |-> rootDir, sourceName |-> sourceName, fileRegex |-> fileRegex,
              ignore |-> ignore, unread |-> unread])

----------------------------------------------------------------------------
(* the cache file *)

Version == <<"dev">>

\* encoding/json writes a string coerced to valid UTF-8: each invalid byte
\* becomes U+FFFD
JsonString(s) ==
    The({ [i \in 1..Len(a) |-> IF a[i] = "xFF" THEN "uFFFD" ELSE a[i]] : a \in {s} })

\* the CachedDocument saveToCache builds from a Document, as json.MarshalIndent
\* writes it
CachedDocument(document) ==
    The({ [Title |-> JsonString(doc.Title), Path |-> JsonString(doc.Path),
           RelPath |-> JsonString(doc.RelPath), DirName |-> JsonString(doc.DirName),
           SourceDir |-> JsonString(doc.SourceDir),
           SourceName |-> JsonString(doc.SourceName),
           AbsPath |-> JsonString(doc.AbsPath), Overview |-> JsonString(doc.Overview)] :
            doc \in {document} })

\* the content of the cache file saveToCache writes
CacheData(documents, version) ==
    The({ [state |-> "valid",
           documents |-> [i \in 1..Len(docs) |-> CachedDocument(docs[i])],
           version |-> JsonString(version)] : docs \in {documents} })

\* no cache file; a cache file json.Unmarshal rejects, with what it had decoded
\* into the local CacheData before it met the error
NoCacheFile == [state |-> "missing", documents |-> <<>>, version |-> <<>>]
BadCacheFile ==
    [state |-> "malformed",
     documents |-> <<[Title |-> <<"A">>, Path |-> <<"README.md">>,
                      RelPath |-> <<"README.md">>, DirName |-> <<"README.md">>,
                      SourceDir |-> <<".">>, SourceName |-> <<"A">>,
                      AbsPath |-> <<".">>, Overview |-> <<>>]>>,
     version |-> <<>>]

\* the Document loadFromCache builds from a CachedDocument
FromCached(cachedDoc) ==
    \* cached is the CachedDocument json.Unmarshal filled in
    The({ Document(cached.Title, cached.Path, <<>>, cached.RelPath, cached.DirName,
                   cached.SourceDir, cached.SourceName, cached.AbsPath,
                   cached.Overview) : cached \in {cachedDoc} })

\* loadFromCache with a plausible slip: the file is decoded into a.Documents
\* directly, so a file that fails to parse leaves what was decoded
loadFromCache_DecodeInPlace(file, docs) ==
    The({ IF f.state = "missing"
          THEN [ok |-> FALSE, docs |-> docs]
          ELSE [ok |-> f.state = "valid",
                docs |-> [i \in 1..Len(f.documents) |-> FromCached(f.documents[i])]] :
            f \in {file} })

\* loadFromCache with a plausible slip: a file written by another version is
\* rejected
loadFromCache_CheckVersion(file, docs) ==
    The({ IF f.state # "valid" \/ f.version # Version
          THEN [ok |-> FALSE, docs |-> docs]
          ELSE [ok |-> TRUE,
                docs |-> [i \in 1..Len(f.documents) |-> FromCached(f.documents[i])]] :
            f \in {file} })

\* a.loadFromCache: [ok, docs]; a.Documents is assigned only after the file
\* was read and parsed
loadFromCache(file, docs) ==
    The({ IF f.state # "valid"
          THEN [ok |-> FALSE, docs |-> docs]
          ELSE [ok |-> TRUE,
                docs |-> [i \in 1..Len(f.documents) |-> FromCached(f.documents[i])]] :
            f \in {file} })

----------------------------------------------------------------------------
(* startup: main -> Initialize *)

\* a.ScanDirectories from a given document list: [docs, ok]
RECURSIVE ScanFrom(_, _, _, _, _, _)
ScanFrom(docs, dirs, regexes, ignore, unread, i) ==
    IF i > Len(dirs) THEN [docs |-> docs, ok |-> TRUE]
    ELSE The({ IF r.ret = "err" THEN [docs |-> r.docs, ok |-> FALSE]
               ELSE ScanFrom(r.docs, dirs, regexes, ignore, unread, i + 1) :
                 r \in {scanDirectory(docs, dirs[i].Path, dirs[i].Name,
                                      regexes[dirs[i].Path], ignore, unread)} })

\* the document list a.ScanDirectories builds from an empty one
ScanAll(dirs, ignore, unread) ==
    The({ ScanFrom(<<>>, d, CompileFileRegexes(d), ignore, unread, 1) : d \in {dirs} })

\* where Initialize goes once ScanDirectories has returned nil
AfterScan == IF UseCache THEN "save" ELSE "ready"

\* where Initialize goes after LoadConfig
AfterConfig ==
    IF UseCache THEN "cache"
    ELSE IF Config.Directories = <<>> THEN "ready" ELSE "scan"

\* a.LoadConfig: compiles the ignore patterns and the file patterns
LoadConfig ==
    /\ pc = "start"
    /\ IgnoreRegexes' = IgnoreRegexes \o Config.IgnorePatterns
    /\ FileRegexes' = CompileFileRegexes(Config.Directories)
    /\ \E next \in {AfterConfig} :
        /\ pc' = next
        /\ initErr' = IF next = "ready" THEN "nil" ELSE initErr
    /\ UNCHANGED <<Config, UseCache, Documents, cacheFile, diskFull, unreadable,
                   scanLog, loaded, saved, trees, task, flaky>>

\* Initialize, cache enabled: a.loadFromCache and the return on success
LoadFromCache ==
    /\ pc = "cache"
    /\ \E r \in {loadFromCache(cacheFile, Documents)} :
        /\ Documents' = r.docs
        /\ pc' = IF r.ok THEN "ready"
                 ELSE IF Config.Directories = <<>> THEN "save" ELSE "scan"
        /\ initErr' = IF r.ok THEN "nil" ELSE initErr
        /\ loaded' = IF r.ok THEN "nil" ELSE "error"
    /\ UNCHANGED <<Config, IgnoreRegexes, FileRegexes, UseCache, cacheFile, diskFull,
                   unreadable, scanLog, saved, trees, task, flaky>>

\* one iteration of the loop of a.ScanDirectories
ScanDirectory ==
    /\ pc = "scan"
    /\ \E i \in {Len(scanLog) + 1} :
       \E dirConfig \in {Config.Directories[i]} :
       \E r \in {scanDirectory(Documents, dirConfig.Path, dirConfig.Name,
                               FileRegexes[dirConfig.Path], IgnoreRegexes, unreadable)} :
           /\ Documents' = r.docs
           /\ scanLog' = Append(scanLog, [root |-> dirConfig.Path,
                                          name |-> dirConfig.Name,
                                          visited |-> r.visited, ret |-> r.ret,
                                          from |-> Len(Documents) + 1,
                                          to |-> Len(r.docs)])
           /\ pc' = IF r.ret = "err" THEN "failed"
                    ELSE IF i < Len(Config.Directories) THEN "scan"
                    ELSE AfterScan
           /\ initErr' = IF r.ret = "err" THEN "error"
                         ELSE IF i = Len(Config.Directories) /\ ~UseCache THEN "nil"
                         ELSE initErr
    /\ UNCHANGED <<Config, IgnoreRegexes, FileRegexes, UseCache, cacheFile, diskFull,
                   unreadable, loaded, saved, trees, task, flaky>>

\* Initialize, cache enabled: a.saveToCache; a failure is logged
SaveToCache ==
    /\ pc = "save"
    /\ IF diskFull
       THEN /\ cacheFile' \in {cacheFile, BadCacheFile}
            /\ saved' = FALSE
       ELSE /\ cacheFile' = CacheData(Documents, Version)
            /\ saved' = TRUE
    /\ pc' = "ready"
    /\ initErr' = "nil"
    /\ UNCHANGED <<Config, IgnoreRegexes, FileRegexes, UseCache, Documents, diskFull,
                   unreadable, scanLog, loaded, trees, task, flaky>>

\* the cache files an earlier run may have left: written under another
\* configuration or by another version
OldCacheFiles ==
    { CacheData(ScanAll(dirs, <<>>, {}).docs, v) :
        dirs \in { <<DirectoryConfig(<<"sub">>, <<"A">>, ReExt("md"))>>,
                   <<DirectoryConfig(<<"/", "x">>, <<"B">>, NoPattern)>> },
        v \in { Version, <<"old">> } }

----------------------------------------------------------------------------
(* the startup without and with the cache *)

InitStartup(useCache, dirChoices, ignoreChoices, unreadChoices, files, full) ==
    /\ pc = "start"
    /\ Config \in [Directories : SeqsUpTo(dirChoices, MaxDirs),
                   IgnorePatterns : SeqsUpTo(ignoreChoices, MaxIgnore)]
    /\ IgnoreRegexes = <<>>
    /\ FileRegexes = <<>>
    /\ UseCache = useCache
    /\ Documents = <<>>
    /\ cacheFile \in files
    /\ diskFull \in full
    /\ unreadable \in unreadChoices
    /\ initErr = "none"
    /\ scanLog = <<>>
    /\ loaded = "none"
    /\ saved = FALSE
    /\ trees = <<>>
    /\ task = <<>>
    /\ flaky = {}

\* a run without -cache
Init == InitStartup(FALSE, DirChoices, IgnoreChoices, UnreadableChoices,
                    {NoCacheFile}, {FALSE})

Next == LoadConfig \/ ScanDirectory

Spec == Init /\ [][Next]_vars

\* a run with -cache: the cache file is missing, malformed or left by an earlier
\* run, and writing it may fail
CacheDirChoices ==
    { DirectoryConfig(<<"sub">>, <<"A">>, ReExt("md")),
      DirectoryConfig(<<"/", "x">>, <<"B">>, NoPattern),
      DirectoryConfig(<<"nope">>, <<"A">>, ReExt("md")) }

CacheIgnoreChoices == { ReSeg("sub"), ReExt("txt") }

InitCache ==
    InitStartup(TRUE, CacheDirChoices, CacheIgnoreChoices, { {}, {<<"w", "d", "sub", "a.md">>} },
                {NoCacheFile, BadCacheFile} \cup OldCacheFiles, BOOLEAN)

NextCache == LoadConfig \/ LoadFromCache \/ ScanDirectory \/ SaveToCache

SpecCache == InitCache /\ [][NextCache]_vars

----------------------------------------------------------------------------
(* serving: Start, the background loader and the request handlers.  No task   *)
(* takes a lock.  A task's step holds at most one access to the shared         *)
(* document list; a store to Content begins when the task reaches "write" and  *)
(* ends with the step it takes from there.                                     *)

\* ioutil.ReadFile: the outcomes a read of path can have
ReadFile(path, unread, flk) ==
    The({ IF FsKind(a) # "file" \/ a \in unread
          THEN { [err |-> TRUE, text |-> <<>>] }
          ELSE IF a \in flk
          THEN { [err |-> TRUE, text |-> <<>>], [err |-> FALSE, text |-> FileText(a)] }
          ELSE { [err |-> FALSE, text |-> FileText(a)] } : a \in {AbsSegs(path)} })

\* a string header read while another task stores it: pointer of the old value
\* with the length of the new one; it is not empty and reading its bytes faults
TornString == <<"\\torn">>

\* the values a read of Documents[i].Content by task self can yield: the stored
\* one, and while another task is storing a different value, that value or a
\* torn one
ReadContent(self, i) ==
    {Documents[i].Content} \cup
    UNION { {task[w].text, TornString} :
              w \in { t \in DOMAIN task : /\ t # self
                                          /\ task[t].pc = "write"
                                          /\ task[t].i = i
                                          /\ task[t].text # Documents[i].Content } }

Task(kind, arg, at, i) ==
    [kind |-> kind, arg |-> arg, pc |-> at, i |-> i, text |-> <<>>, results |-> <<>>,
     status |-> 0, body |-> <<>>]

\* a finished request and its answer
Respond(t, status, body) == [t EXCEPT !.pc = "done", !.status = status, !.body = body]

\* docIndex of handleDocument: the first document with that RelPath, 0 for none
FindDocument(docs, path) ==
    The({ IF found = {} THEN 0 ELSE The({ i \in found : \A j \in found : i <= j }) :
            found \in {{ i \in 1..Len(docs) : docs[i].RelPath = path }} })

\* Start: whether the background loader is needed
needsContentLoading(docs) == \E i \in 1..Len(docs) : docs[i].Content = <<>>

\* Start up to ListenAndServe; task 1 is the goroutine of loadDocumentContents
Start ==
    /\ pc = "ready"
    /\ pc' = "serving"
    /\ task' = << Task("loader", <<>>,
                       IF UseCache /\ needsContentLoading(Documents) THEN "check" ELSE "off",
                       1) >>
    /\ UNCHANGED <<Config, IgnoreRegexes, FileRegexes, UseCache, Documents, cacheFile,
                   diskFull, unreadable, flaky, initErr, scanLog, loaded, saved, trees>>

\* the end of an iteration over a.Documents: the next one, or what follows the loop
NextDocument(t, n, after) ==
    IF t.i < n THEN [t EXCEPT !.pc = "check", !.i = @ + 1, !.text = <<>>]
    ELSE [t EXCEPT !.pc = after, !.i = 1, !.text = <<>>]

\* loadDocumentContents with a plausible slip: no continue after a read failure
AfterRead_NoContinue(t, read, n, after) ==
    [t EXCEPT !.pc = "write", !.text = read.text]

\* loadDocumentContents and the load loop of handleSearch, after ReadFile: a
\* failure is logged and the loop continues, otherwise the store follows
AfterRead(t, read, n, after) ==
    IF read.err THEN NextDocument(t, n, after)
    ELSE [t EXCEPT !.pc = "write", !.text = read.text]

\* one iteration of a load loop up to the store: a document with Content is skipped
LoadStep(self, after) ==
    \E t \in {task[self]} :
    \E n \in {Len(Documents)} :
    \E seen \in ReadContent(self, t.i) :
        IF seen # <<>>
        THEN task' = [task EXCEPT ![self] = NextDocument(t, n, after)]
        ELSE \E read \in ReadFile(Documents[t.i].Path, unreadable, flaky) :
                task' = [task EXCEPT ![self] = AfterRead(t, read, n, after)]

\* the store a.Documents[i].Content = string(content) of a load loop
StoreStep(self, after) ==
    \E t \in {task[self]} :
        /\ Documents' = [Documents EXCEPT ![t.i].Content = t.text]
        /\ task' = [task EXCEPT ![self] = NextDocument(t, Len(Documents), after)]

LoaderCheck ==
    /\ pc = "serving"
    /\ task[1].pc = "check"
    /\ LoadStep(1, "done")
    /\ UNCHANGED <<pc, Config, IgnoreRegexes, FileRegexes, UseCache, Documents, cacheFile,
                   diskFull, unreadable, flaky, initErr, scanLog, loaded, saved, trees>>

LoaderWrite ==
    /\ pc = "serving"
    /\ task[1].pc = "write"
    /\ StoreStep(1, "done")
    /\ UNCHANGED <<pc, Config, IgnoreRegexes, FileRegexes, UseCache, cacheFile,
                   diskFull, unreadable, flaky, initErr, scanLog, loaded, saved, trees>>

\* the requests the model sends: /doc/<path> and /api/search?q=<query>
DocPaths == { <<"a.md">>, <<"sub", "/", "a.md">>, <<"none.md">> }
Queries == { <<" ">>, <<" ", "A">>, <<"b", "\n">> }

\* the query handleSearch searches for
SearchQuery(q) == ToLower(TrimSpace(q))

\* net/http accepts a request and runs its handler in a goroutine of its own,
\* here up to the handler's first access to the document list
Request ==
    /\ pc = "serving"
    /\ Len(task) < 1 + MaxRequests
    /\ \/ \E path \in DocPaths :
            task' = Append(task, Task("doc", path, "lookup", 0))
       \/ \E q \in Queries :
          \E query \in {SearchQuery(q)} :
            task' = Append(task,
                IF query = <<>>
                THEN Respond(Task("search", query, "done", 0), 200, <<"[", "]">>)
                ELSE IF Documents = <<>>
                THEN Respond(Task("search", query, "done", 0), 200, <<"null">>)
                ELSE Task("search", query, IF UseCache THEN "check" ELSE "match", 1))
    /\ UNCHANGED <<pc, Config, IgnoreRegexes, FileRegexes, UseCache, Documents, cacheFile,
                   diskFull, unreadable, flaky, initErr, scanLog, loaded, saved, trees>>

Handlers(kind, at) ==
    { k \in 2..Len(task) : task[k].kind = kind /\ task[k].pc = at }

\* handleDocument up to the store: the lookup, and the load on demand
DocLookup ==
    /\ pc = "serving"
    /\ \E k \in Handlers("doc", "lookup") :
       \E t \in {task[k]} :
       \E docIndex \in {FindDocument(Documents, t.arg)} :
           IF docIndex = 0
           THEN task' = [task EXCEPT ![k] = Respond(t, 404, <<>>)]
           ELSE \E seen \in ReadContent(k, docIndex) :
                   IF seen # <<>>
                   THEN task' = [task EXCEPT ![k] = [t EXCEPT !.pc = "render", !.i = docIndex]]
                   ELSE \E read \in ReadFile(Documents[docIndex].Path, unreadable, flaky) :
                           task' = [task EXCEPT ![k] =
                               IF read.err THEN Respond([t EXCEPT !.i = docIndex], 500, <<>>)
                               ELSE [t EXCEPT !.pc = "write", !.i = docIndex,
                                              !.text = read.text]]
    /\ UNCHANGED <<pc, Config, IgnoreRegexes, FileRegexes, UseCache, Documents, cacheFile,
                   diskFull, unreadable, flaky, initErr, scanLog, loaded, saved, trees>>

\* handleDocument: doc.Content = string(content)
DocWrite ==
    /\ pc = "serving"
    /\ \E k \in Handlers("doc", "write") :
       \E t \in {task[k]} :
           /\ Documents' = [Documents EXCEPT ![t.i].Content = t.text]
           /\ task' = [task EXCEPT ![k] = [t EXCEPT !.pc = "render", !.text = <<>>]]
    /\ UNCHANGED <<pc, Config, IgnoreRegexes, FileRegexes, UseCache, cacheFile,
                   diskFull, unreadable, flaky, initErr, scanLog, loaded, saved, trees>>

\* handleDocument: doc.Content is read and rendered into the page; the body
\* stands for the page by the content it was rendered from
DocRender ==
    /\ pc = "serving"
    /\ \E k \in Handlers("doc", "render") :
       \E t \in {task[k]} :
       \E seen \in ReadContent(k, t.i) :
           task' = [task EXCEPT ![k] =
               IF seen = TornString THEN Respond(t, 0, <<"panic">>)
               ELSE Respond(t, 200, seen)]
    /\ UNCHANGED <<pc, Config, IgnoreRegexes, FileRegexes, UseCache, Documents, cacheFile,
                   diskFull, unreadable, flaky, initErr, scanLog, loaded, saved, trees>>

\* handleSearch: one iteration of the load loop, up to the store
SearchCheck ==
    /\ pc = "serving"
    /\ \E k \in Handlers("search", "check") : LoadStep(k, "match")
    /\ UNCHANGED <<pc, Config, IgnoreRegexes, FileRegexes, UseCache, Documents, cacheFile,
                   diskFull, unreadable, flaky, initErr, scanLog, loaded, saved, trees>>

\* handleSearch: the store of the load loop
SearchWrite ==
    /\ pc = "serving"
    /\ \E k \in Handlers("search", "write") : StoreStep(k, "match")
    /\ UNCHANGED <<pc, Config, IgnoreRegexes, FileRegexes, UseCache, cacheFile,
                   diskFull, unreadable, flaky, initErr, scanLog, loaded, saved, trees>>

\* the condition of the match loop of handleSearch
SearchMatches(title, content, overview, query) ==
    \/ Contains(ToLower(title), query)
    \/ Contains(ToLower(content), query)
    \/ Contains(ToLower(overview), query)

\* what json.NewEncoder(w).Encode(results) writes: the indices of the documents
\* stand for their encodings; a nil slice is written as null
EncodeResults(results) == IF results = <<>> THEN <<"null">> ELSE results

\* handleSearch: one iteration of the match loop over a copy of the document,
\* and after the last one the answer
SearchMatch ==
    /\ pc = "serving"
    /\ \E k \in Handlers("search", "match") :
       \E t \in {task[k]} :
       \E doc \in {Documents[t.i]} :
       \E seen \in ReadContent(k, t.i) :
       \E results \in { IF seen # TornString
                           /\ SearchMatches(doc.Title, seen, doc.Overview, t.arg)
                        THEN Append(t.results, t.i) ELSE t.results } :
           task' = [task EXCEPT ![k] =
               IF seen = TornString THEN Respond(t, 0, <<"panic">>)
               ELSE IF t.i < Len(Documents)
               THEN [t EXCEPT !.i = @ + 1, !.results = results]
               ELSE Respond([t EXCEPT !.results = results], 200, EncodeResults(results))]
    /\ UNCHANGED <<pc, Config, IgnoreRegexes, FileRegexes, UseCache, Documents, cacheFile,
                   diskFull, unreadable, flaky, initErr, scanLog, loaded, saved, trees>>

\* the configurations the served document lists come from
ServeConfigs ==
    { << DirectoryConfig(<<".">>, <<"A">>, ReExt("md")) >>,
      << DirectoryConfig(<<"sub">>, <<"A">>, ReExt("md")),
         DirectoryConfig(<<"..", "/", "e">>, <<"B">>, ReExt("md")) >> }


\* the states Initialize returns nil in: without the cache, with the cache
\* after a scan, and with the document list of the cache file
InitServe ==
    /\ pc = "ready"
    /\ \E dirs \in ServeConfigs :
       \E scan \in {ScanAll(dirs, <<>>, {})} :
       \E cache \in {CacheData(scan.docs, Version)} :
       \E hit \in BOOLEAN :
           /\ Config = [Directories |-> dirs, IgnorePatterns |-> <<>>]
           /\ FileRegexes = CompileFileRegexes(dirs)
           /\ UseCache \in (IF hit THEN {TRUE} ELSE BOOLEAN)
           /\ Documents = IF hit THEN loadFromCache(cache, <<>>).docs ELSE scan.docs
           /\ cacheFile = IF UseCache THEN cache ELSE NoCacheFile
           /\ loaded = IF hit THEN "nil" ELSE IF UseCache THEN "error" ELSE "none"
           /\ saved = (UseCache /\ ~hit)
           \* the file of the first document is gone, or read unreliably, when
           \* the cached list is served
           /\ \E first \in {{AbsSegs(scan.docs[1].Path)}} :
              \E files \in (IF hit THEN { <<{}, {}>>, <<first, {}>>, <<{}, first>> }
                            ELSE { <<{}, {}>> }) :
                 /\ unreadable = files[1]
                 /\ flaky = files[2]
    /\ IgnoreRegexes = <<>>
    /\ diskFull = FALSE
    /\ initErr = "nil"
    /\ scanLog = <<>>
    /\ trees = <<>>
    /\ task = <<>>

NextServe ==
    \/ Start \/ Request
    \/ LoaderCheck \/ LoaderWrite
    \/ DocLookup \/ DocWrite \/ DocRender
    \/ SearchCheck \/ SearchWrite \/ SearchMatch

SpecServe == InitServe /\ [][NextServe]_vars

----------------------------------------------------------------------------
(* the index page: the groups and the directory trees *)

\* the groupMap of GroupDocumentsByDirectory and of BuildDirectoryTrees: the
\* documents of each SourceName, in list order
GroupMap(docs) ==
    [ name \in { docs[i].SourceName : i \in 1..Len(docs) } |->
        SelectSeq(docs, LAMBDA d : d.SourceName = name) ]

\* the orders a range over a Go map with these keys can take
MapOrders(keys) ==
    { o \in [1..Cardinality(keys) -> keys] :
        \A i \in DOMAIN o : \A j \in DOMAIN o : i # j => o[i] # o[j] }

DirectoryGroup(name, docs) == [Name |-> name, Documents |-> docs]

\* a.GroupDocumentsByDirectory, the range over groupMap taking the given order
GroupDocumentsByDirectory(docs, order) ==
    The({ [k \in 1..Len(order) |-> DirectoryGroup(order[k], groupMap[order[k]])] :
            groupMap \in {GroupMap(docs)} })

\* a TreeNode; Document is <<>> for a nil pointer and <<doc>> for a pointer to doc
TreeNode(name, path, isFile, document, isOpen) ==
    [Name |-> name, Path |-> path, IsFile |-> isFile, Document |-> document,
     Children |-> <<>>, IsOpen |-> isOpen]

\* the first child of node with that name, 0 for none
FindChild(node, part) ==
    The({ IF found = {} THEN 0 ELSE The({ c \in found : \A d \in found : c <= d }) :
            found \in {{ c \in 1..Len(node.Children) : node.Children[c].Name = part }} })

\* the loop of addDocumentToTree from part i on, below the node current
RECURSIVE AddParts(_, _, _, _, _)
AddParts(current, parts, i, currentPath, doc) ==
    IF i > Len(parts) THEN current
    ELSE The({ The({ IF found = 0
                     THEN [current EXCEPT !.Children = Append(@, child)]
                     ELSE [current EXCEPT !.Children[found] = child] :
                       child \in { AddParts(IF found = 0
                                            THEN TreeNode(parts[i], path, i = Len(parts),
                                                          IF i = Len(parts) THEN <<doc>>
                                                          ELSE <<>>, FALSE)
                                            ELSE current.Children[found],
                                            parts, i + 1, path, doc) } }) :
                 found \in {FindChild(current, parts[i])},
                 path \in {IF currentPath = <<>> THEN parts[i]
                           ELSE currentPath \o <<"/">> \o parts[i]} })

\* addDocumentToTree: the root with the document added
addDocumentToTree(root, doc, sourceDir) ==
    The({ AddParts(root, Split(IF rel.ok THEN rel.path ELSE doc.Path, "/"), 1, <<>>, doc) :
            rel \in {Rel(sourceDir, doc.Path)} })

\* the tree of one source: its documents added one by one
RECURSIVE AddDocuments(_, _, _)
AddDocuments(root, docs, i) ==
    IF i > Len(docs) THEN root
    ELSE AddDocuments(addDocumentToTree(root, docs[i], docs[i].SourceDir), docs, i + 1)

DirectoryTree(name, root) == [Name |-> name, Root |-> root]

\* a.BuildDirectoryTrees, the range over groupMap taking the given order
BuildDirectoryTrees(docs, order) ==
    The({ [k \in 1..Len(order) |->
              DirectoryTree(order[k],
                            AddDocuments([TreeNode(order[k], <<>>, FALSE, <<>>, TRUE)
                                             EXCEPT !.Children = <<>>],
                                         groupMap[order[k]], 1))] :
            groupMap \in {GroupMap(docs)} })

\* handleIndex: the page data it hands to the template, kept per request
HandleIndex ==
    /\ pc = "serving"
    /\ Len(trees) < MaxBuilds
    /\ \E keys \in {DOMAIN GroupMap(Documents)} :
       \E groupOrder \in MapOrders(keys) :
       \E treeOrder \in MapOrders(keys) :
           trees' = Append(trees,
                           [Groups |-> GroupDocumentsByDirectory(Documents, groupOrder),
                            Trees |-> BuildDirectoryTrees(Documents, treeOrder),
                            TotalDocuments |-> Len(Documents)])
    /\ UNCHANGED <<pc, Config, IgnoreRegexes, FileRegexes, UseCache, Documents, cacheFile,
                   diskFull, unreadable, flaky, initErr, scanLog, loaded, saved, task>>

\* the server runs on the document list of a scan, and the index page is
\* requested
InitIndex ==
    /\ pc = "serving"
    /\ Config \in [Directories : SeqsUpTo(DirChoices, MaxDirs), IgnorePatterns : {<<>>}]
    /\ \E scan \in {ScanAll(Config.Directories, <<>>, {})} :
        /\ scan.ok
        /\ Documents = scan.docs
    /\ FileRegexes = CompileFileRegexes(Config.Directories)
    /\ IgnoreRegexes = <<>>
    /\ UseCache = FALSE
    /\ cacheFile = NoCacheFile
    /\ diskFull = FALSE
    /\ unreadable = {}
    /\ flaky = {}
    /\ initErr = "nil"
    /\ scanLog = <<>>
    /\ loaded = "none"
    /\ saved = FALSE
    /\ trees = <<>>
    /\ task = << Task("loader", <<>>, "off", 1) >>

NextIndex == HandleIndex

SpecIndex == InitIndex /\ [][NextIndex]_vars

----------------------------------------------------------------------------
(* processFile on a file of any content *)

\* the lines the content of the file is made of
LineChoices ==
    { <<"#", "#", " ", "Overview">>, <<" ", "#", "#", " ", "Overview", " ", "a">>,
      <<"#", " ", "b">>, <<>>, <<" ">>, <<"a">>, <<" ", "b", " ">> }

\* the file sub/a.md is met by the scan of "." and has the drawn content
ProcessFile ==
    /\ pc = "file"
    /\ \E lines \in SeqsUpTo(LineChoices, MaxLines) :
        Documents' = Append(Documents,
                            NewDocument(<<"sub", "/", "a.md">>, <<".">>, <<"A">>,
                                        Join(lines, <<"\n">>)))
    /\ pc' = "filed"
    /\ UNCHANGED <<Config, IgnoreRegexes, FileRegexes, UseCache, cacheFile, diskFull,
                   unreadable, flaky, initErr, scanLog, loaded, saved, trees, task>>

InitFile ==
    /\ pc = "file"
    /\ Config = [Directories |-> <<DirectoryConfig(<<".">>, <<"A">>, ReExt("md"))>>,
                 IgnorePatterns |-> <<>>]
    /\ FileRegexes = CompileFileRegexes(Config.Directories)
    /\ IgnoreRegexes = <<>>
    /\ UseCache = FALSE
    /\ Documents = <<>>
    /\ cacheFile = NoCacheFile
    /\ diskFull = FALSE
    /\ unreadable = {}
    /\ flaky = {}
    /\ initErr = "none"
    /\ scanLog = <<>>
    /\ loaded = "none"
    /\ saved = FALSE
    /\ trees = <<>>
    /\ task = <<>>

NextFile == ProcessFile

SpecFile == InitFile /\ [][NextFile]_vars

----------------------------------------------------------------------------
(* Properties of the scan *)

Range(seq) == { seq[i] : i \in 1..Len(seq) }

\* the path strings from root down to, and without, path: the directories a
\* walk from root passes through to reach path
WalkAncestors(root, path) ==
    LET rel == Segs(Rel(root, path).path)
    IN  { Clean(root \o <<"/">> \o Interleave(SubSeq(rel, 1, k))) : k \in 0..(Len(rel) - 1) }

Ignored(path) == shouldIgnorePath(IgnoreRegexes, path)

\* C1: in every state of the startup, no Document has a path that matches an
\* ignore pattern, no Document lies below a directory of its scan (its root or
\* a directory under it) whose path matches an ignore pattern, and no scan's
\* callback has been called for a path below such a directory: the walk never
\* descends into an ignored directory.
C1_NoIgnoredDocuments ==
    /\ \A i \in 1..Len(Documents) :
        /\ ~Ignored(Documents[i].Path)
        /\ \A u \in WalkAncestors(Documents[i].SourceDir, Documents[i].Path) : ~Ignored(u)
    /\ \A k \in 1..Len(scanLog) :
        \A v \in Range(scanLog[k].visited) :
            \A u \in WalkAncestors(scanLog[k].root, v) : ~Ignored(u)

\* C1, witness: a scan met an ignored directory that holds a file its file
\* pattern matches
C1_Witness ==
    \E k \in 1..Len(scanLog) :
        \E v \in Range(scanLog[k].visited) :
            /\ Ignored(v)
            /\ FsKind(AbsSegs(v)) = "dir"
            /\ \E n \in Range(ReadDirNames(AbsSegs(v))) :
                /\ MatchString(FileRegexes[scanLog[k].root], <<n>>)
                /\ ~Ignored(JoinPath(v, n))

\* the files a scan visited that the claims about indexing are about
IsFile(path) == FsKind(AbsSegs(path)) = "file"
Matches(root, path) == MatchString(FileRegexes[root], Base(path))
Readable(path) == AbsSegs(path) \notin unreadable

\* the documents of the list that are for the file at path
DocsFor(path) == { i \in 1..Len(Documents) : AbsSegs(Documents[i].Path) = AbsSegs(path) }

\* C2 as claimed: after ScanDirectories, every visited file that matches the
\* file pattern in force for its directory and is not ignored has exactly one
\* Document in the list, with RelPath relative to the configured root.
C2_ExactlyOneDocument ==
    pc = "ready" =>
        \A k \in 1..Len(scanLog) :
            \A v \in Range(scanLog[k].visited) :
                (IsFile(v) /\ Matches(scanLog[k].root, v) /\ ~Ignored(v)) =>
                    /\ Cardinality(DocsFor(v)) = 1
                    /\ \A i \in DocsFor(v) :
                        Documents[i].RelPath = Rel(scanLog[k].root, v).path

\* C2 as amended: after ScanDirectories, for every configured directory entry
\* and every file its scan visited that is readable, matches the pattern
\* compiled for the entry's path and is not ignored, that entry's scan appended
\* exactly one Document for the file, with RelPath relative to the entry's root
\* and with the entry's root and name; it appended no other Document.
C2_OneDocumentPerVisit ==
    pc = "ready" =>
        \A k \in 1..Len(scanLog) :
            LET mine == scanLog[k].from .. scanLog[k].to IN
            /\ \A v \in Range(scanLog[k].visited) :
                (IsFile(v) /\ Matches(scanLog[k].root, v) /\ ~Ignored(v) /\ Readable(v)) =>
                    /\ Cardinality({ i \in mine : Documents[i].Path = v }) = 1
                    /\ \A i \in mine :
                        Documents[i].Path = v =>
                            /\ Documents[i].RelPath = Rel(scanLog[k].root, v).path
                            /\ Documents[i].SourceDir = scanLog[k].root
                            /\ Documents[i].SourceName = scanLog[k].name
            /\ \A i \in mine :
                \E v \in Range(scanLog[k].visited) :
                    /\ Documents[i].Path = v
                    /\ IsFile(v) /\ Matches(scanLog[k].root, v) /\ ~Ignored(v) /\ Readable(v)

\* C2, witness: a finished scan in which one file has two Documents and an
\* unreadable matching file has none
C2_Witness ==
    /\ pc = "ready"
    /\ \E k \in 1..Len(scanLog) :
        \E v \in Range(scanLog[k].visited) :
            /\ IsFile(v) /\ Matches(scanLog[k].root, v) /\ ~Ignored(v) /\ Readable(v)
            /\ Cardinality(DocsFor(v)) = 2
    /\ \E k \in 1..Len(scanLog) :
        \E v \in Range(scanLog[k].visited) :
            /\ IsFile(v) /\ Matches(scanLog[k].root, v) /\ ~Ignored(v) /\ ~Readable(v)
            /\ DocsFor(v) = {}

\* the containing directory of a document's file, relative to the working
\* directory
RelDir(doc) == Rel(WorkingDir, Dir(Abs(doc.Path))).path

\* the path without its leading ".." segments, rooted at "/"
Rooted(rel) ==
    LET segs == Segs(rel)
        n == Cardinality({ i \in 1..Len(segs) : \A j \in 1..i : segs[j] = ".." })
    IN  MkPath(TRUE, SubSeq(segs, n + 1, Len(segs)))

\* C10 as claimed: a Document whose containing directory, relative to the
\* working directory, climbs above it has that relative path rooted at "/"
\* with the climbing prefix removed as AbsPath, and no ".." segment in it.
C10_ClimbingPathRooted ==
    \A i \in 1..Len(Documents) :
        (RelDir(Documents[i])[1] = "..") =>
            /\ Documents[i].AbsPath = Rooted(RelDir(Documents[i]))
            /\ \A j \in 1..Len(Documents[i].AbsPath) : Documents[i].AbsPath[j] # ".."

----------------------------------------------------------------------------
(* Properties of the cache *)

\* what document b keeps of document a when a was saved and b loaded back
SameButContent(a, b) ==
    /\ b.Title = a.Title /\ b.Path = a.Path /\ b.RelPath = a.RelPath
    /\ b.DirName = a.DirName /\ b.SourceDir = a.SourceDir
    /\ b.SourceName = a.SourceName /\ b.AbsPath = a.AbsPath
    /\ b.Overview = a.Overview
    /\ b.Content = <<>>

\* the run has written the cache file from its document list
SavedNow == pc = "ready" /\ saved

\* C3 as claimed: once saveToCache has written the document list, loadFromCache
\* of the file it wrote succeeds and yields a list of the same length and order
\* whose documents equal the saved ones in every field but Content, which is
\* empty.
C3_RoundTrip ==
    SavedNow =>
        LET r == loadFromCache(cacheFile, <<>>) IN
        /\ r.ok
        /\ Len(r.docs) = Len(Documents)
        /\ \A i \in 1..Len(Documents) : SameButContent(Documents[i], r.docs[i])

\* the document list a run without the cache builds under this configuration
ScanResult == ScanAll(Config.Directories, Config.IgnorePatterns, unreadable)

\* C4: when the cache is enabled and loadFromCache has failed, Initialize goes
\* on to the scan and never returns before it; when it returns nil the document
\* list is the one a run without cache builds, whether or not the cache file
\* could be saved; it returns an error only when that scan fails.
C4_FallsBackToScan ==
    (UseCache /\ loaded = "error") =>
        /\ pc \in {"scan", "save", "ready", "failed"}
        /\ pc \in {"save", "ready"} => (ScanResult.ok /\ Documents = ScanResult.docs)
        /\ pc = "ready" => initErr = "nil"
        /\ pc = "failed" => (initErr = "error" /\ ~ScanResult.ok)
        /\ pc \in {"scan", "save"} => initErr = "none"

\* C4, witness: the cache file did not parse, the scan found documents, the
\* cache file could not be written and Initialize returned nil
C4_Witness ==
    /\ UseCache /\ loaded = "error" /\ cacheFile = BadCacheFile
    /\ pc = "ready" /\ ~saved /\ diskFull
    /\ Documents # <<>>

----------------------------------------------------------------------------
(* Properties of serving *)

Serving == pc = "serving" /\ pc' = "serving"

\* C5: in every step taken while the server runs, by the loader or by a
\* handler, a document whose Content is not empty keeps a Content that is not
\* empty, every document keeps all its other fields, and the list keeps its
\* length.
C5_ContentSetOnce ==
    [][ Serving =>
          /\ Len(Documents') = Len(Documents)
          /\ \A i \in 1..Len(Documents) :
                /\ Documents[i].Content # <<>> => Documents'[i].Content # <<>>
                /\ [Documents'[i] EXCEPT !.Content = <<>>]
                        = [Documents[i] EXCEPT !.Content = <<>>] ]_vars

\* C5, witness: the loader and a handler have both stored the Content of the
\* same document, and the handler has answered
C5_Witness ==
    /\ pc = "serving"
    /\ task[1].pc = "done"
    /\ \E k \in 2..Len(task) :
        /\ task[k].kind = "doc" /\ task[k].pc = "done" /\ task[k].status = 200
        /\ task[k].text = <<>> /\ task[k].body # <<>>
        /\ Documents[task[k].i].Content = task[k].body
        /\ loaded = "nil"
        /\ AbsSegs(Documents[task[k].i].Path) \in flaky

\* the document whose Content the next step of task t reads, 0 for none
ReadsNext(t) ==
    IF task[t].pc \in {"check", "match", "render"} THEN task[t].i
    ELSE IF task[t].kind = "doc" /\ task[t].pc = "lookup"
    THEN FindDocument(Documents, task[t].arg)
    ELSE 0

\* C6 as claimed: in no state is one task storing the Content of a document
\* while another task is at a read of the Content of that document.
C6_NoReadDuringWrite ==
    pc = "serving" =>
        \A w \in DOMAIN task : \A r \in DOMAIN task :
            (w # r /\ task[w].pc = "write") => ReadsNext(r) # task[w].i

\* the files whose reads succeed
Reliable(doc) ==
    /\ FsKind(AbsSegs(doc.Path)) = "file"
    /\ AbsSegs(doc.Path) \notin unreadable \cup flaky

LoaderDone == pc = "serving" /\ task[1].pc = "done"

\* C7 as claimed, its part about the state at the end of the loader: once the
\* loader has ended, alone or among handlers, every document whose file is
\* readable and not empty has the file's text as Content.
C7_LoadedAtEnd ==
    LoaderDone =>
        \A i \in 1..Len(Documents) :
            Reliable(Documents[i]) =>
                Documents[i].Content = FileText(AbsSegs(Documents[i].Path))

\* the documents a search for query has to return and may return: the content
\* of a document is the text of its file; where the file cannot be read
\* reliably, a match by the content alone is left open
MustMatch(doc, query) ==
    SearchMatches(doc.Title,
                  IF Reliable(doc) THEN FileText(AbsSegs(doc.Path)) ELSE <<>>,
                  doc.Overview, query)
MayMatch(doc, query) ==
    SearchMatches(doc.Title, FileText(AbsSegs(doc.Path)), doc.Overview, query)

\* C9 as claimed: every search request is answered; for a query that is not
\* empty after trimming, with the documents whose Title, content or Overview
\* contains the lower-cased query, in the order of the list; for an empty one
\* with an empty array.
C9_SearchResults ==
    pc = "serving" =>
        \A k \in 2..Len(task) :
            (task[k].kind = "search" /\ task[k].pc = "done") =>
                /\ task[k].status = 200
                /\ task[k].arg = <<>> => task[k].body = <<"[", "]">>
                /\ task[k].arg # <<>> =>
                    /\ \A a \in 1..Len(task[k].results) : \A b \in 1..Len(task[k].results) :
                          a < b => task[k].results[a] < task[k].results[b]
                    /\ \A i \in 1..Len(Documents) :
                          /\ MustMatch(Documents[i], task[k].arg)
                                => i \in Range(task[k].results)
                          /\ i \in Range(task[k].results)
                                => MayMatch(Documents[i], task[k].arg)

----------------------------------------------------------------------------
(* Properties of the index page *)

\* C8 as claimed: any two calls of BuildDirectoryTrees on the same, unmodified
\* document list return the same trees in the same order, with the same nodes,
\* the same child order and the same documents at the file nodes.
C8_SameTrees ==
    \A a \in 1..Len(trees) : \A b \in 1..Len(trees) : trees[a].Trees = trees[b].Trees

----------------------------------------------------------------------------
(* Properties of the overview *)

\* the lines of a content, trimmed
TrimmedLines(content) ==
    LET lines == Split(content, "\n") IN [i \in 1..Len(lines) |-> TrimSpace(lines[i])]

Least(S) == CHOOSE i \in S : \A j \in S : i <= j

IsOverviewHeading(line) == HasPrefix(line, <<"#", "#", " ", "Overview">>)

\* the paragraph the claim describes: after the first Overview heading, from
\* the first line that is not blank up to the next blank line or heading
OverviewParagraph(content) ==
    LET t == TrimmedLines(content)
        heads == { i \in 1..Len(t) : IsOverviewHeading(t[i]) }
        starts == { i \in 1..Len(t) : heads # {} /\ i > Least(heads) /\ t[i] # <<>> }
        stops == { i \in 1..Len(t) :
                     /\ starts # {} /\ i > Least(starts)
                     /\ (t[i] = <<>> \/ HasPrefix(t[i], <<"#">>)) }
        last == IF stops = {} THEN Len(t) ELSE Least(stops) - 1
    IN  IF starts = {} THEN <<>>
        ELSE Join(SubSeq(t, Least(starts), last), <<" ">>)

\* C11 as claimed: the Overview of a processed file is the first paragraph
\* after the first line whose trimmed form starts with "## Overview", its
\* lines trimmed and joined with single spaces; blank lines right after the
\* heading are skipped, the paragraph ends at the next heading or blank line,
\* and the Overview is empty when there is no such heading.
C11_OverviewParagraph ==
    \A i \in 1..Len(Documents) :
        Documents[i].Overview = OverviewParagraph(Documents[i].Content)

----------------------------------------------------------------------------
(* Properties of the scan: errors *)

\* the path a walk from root hands to its callback for the file whose absolute
\* segments are f
WalkPath(root, f) ==
    Clean(root \o <<"/">> \o Interleave(SubSeq(f, Len(AbsSegs(root)) + 1, Len(f))))

\* the files below root
FilesUnder(root) ==
    LET a == AbsSegs(root)
    IN  { f \in FsFiles : Len(f) > Len(a) /\ SubSeq(f, 1, Len(a)) = a }

\* the root exists and is a readable directory
Walkable(root) == FsKind(AbsSegs(root)) = "dir" /\ AbsSegs(root) \notin unreadable

\* the only errors the scans of this run can meet are read errors on files
OnlyReadErrors ==
    /\ unreadable \subseteq FsFiles
    /\ \A k \in 1..Len(Config.Directories) : Walkable(Config.Directories[k].Path)

\* C12: when the only errors are read errors on files, no scan fails and every
\* scan that was run has appended a Document for every readable file below its
\* root that matches its pattern and is not ignored (neither the file nor a
\* directory on the way to it); the scan of a root that cannot be walked
\* returns an error, appends nothing, and Initialize fails.
C12_ReadErrorSkipped ==
    /\ OnlyReadErrors =>
        /\ pc # "failed"
        /\ \A k \in 1..Len(scanLog) :
            /\ scanLog[k].ret = "nil"
            /\ \A f \in FilesUnder(scanLog[k].root) \ unreadable :
                LET v == WalkPath(scanLog[k].root, f) IN
                (/\ MatchString(FileRegexes[scanLog[k].root], <<f[Len(f)]>>)
                 /\ ~Ignored(v)
                 /\ \A u \in WalkAncestors(scanLog[k].root, v) : ~Ignored(u)) =>
                    \E i \in scanLog[k].from .. scanLog[k].to :
                        /\ Documents[i].Path = v
                        /\ Documents[i].Content = FileText(f)
    /\ \A k \in 1..Len(scanLog) :
        ~Walkable(scanLog[k].root) =>
            /\ scanLog[k].ret = "err"
            /\ scanLog[k].to < scanLog[k].from
            /\ k = Len(scanLog)
            /\ pc = "failed"
            /\ initErr = "error"

\* C12, witness: a finished run in which a scan met a matching file it could
\* not read and indexed a file it visited after that one
C12_Witness ==
    /\ pc = "ready"
    /\ \E k \in 1..Len(scanLog) :
        \E a, b \in 1..Len(scanLog[k].visited) :
            /\ a < b
            /\ IsFile(scanLog[k].visited[a]) /\ ~Readable(scanLog[k].visited[a])
            /\ Matches(scanLog[k].root, scanLog[k].visited[a])
            /\ ~Ignored(scanLog[k].visited[a])
            /\ \E i \in scanLog[k].from .. scanLog[k].to :
                Documents[i].Path = scanLog[k].visited[b]

----------------------------------------------------------------------------
(* Properties of the default file pattern *)

\* the entry of the configuration whose file_pattern is in force for the
\* path of entry k: the last one with that path
InForce(k) ==
    CHOOSE i \in 1..Len(Config.Directories) :
        /\ Config.Directories[i].Path = Config.Directories[k].Path
        /\ \A j \in (i + 1)..Len(Config.Directories) :
            Config.Directories[j].Path # Config.Directories[k].Path

EndsInMd(path) == NameExt(Base(path)[1]) = "md"

IsReadme(path) == Base(path) \in {<<"README.md">>, <<"readme.md">>}

\* the paths of the Documents the scan of entry k appended
Indexed(k) == { Documents[i].Path : i \in scanLog[k].from .. scanLog[k].to }

\* the files the scan of entry k visited, could read and did not ignore
Candidates(k) ==
    { v \in Range(scanLog[k].visited) : IsFile(v) /\ Readable(v) /\ ~Ignored(v) }

\* C13 as claimed: the scan of a configured directory that omits file_pattern
\* indexes every readable, not ignored file it visits whose name ends in .md.
C13_DefaultEveryMd ==
    \A k \in 1..Len(scanLog) :
        (Config.Directories[k].FilePattern = NoPattern /\ InForce(k) = k) =>
            \A v \in Candidates(k) : EndsInMd(v) => v \in Indexed(k)

\* C13 as amended: for a configured directory whose file_pattern in force is
\* omitted, the compiled pattern is ^(?i)(readme\.md)$ and its scan indexes
\* exactly the readable, not ignored files it visits that are named README.md
\* in any letter case.
C13_DefaultReadmeOnly ==
    \A k \in 1..Len(scanLog) :
        Config.Directories[InForce(k)].FilePattern = NoPattern =>
            /\ FileRegexes[scanLog[k].root] = ReReadme
            /\ Indexed(k) = { v \in Candidates(k) : IsReadme(v) }

\* C13, witness: finished scans under the default pattern, one that indexed
\* README.md and left out another .md file it visited, one that indexed
\* readme.md
C13_Witness ==
    /\ pc = "ready"
    /\ \E k \in 1..Len(scanLog) :
        /\ Config.Directories[k].FilePattern = NoPattern /\ InForce(k) = k
        /\ \E v \in Candidates(k) : Base(v) = <<"README.md">> /\ v \in Indexed(k)
        /\ \E v \in Candidates(k) : EndsInMd(v) /\ v \notin Indexed(k)
    /\ \E k \in 1..Len(scanLog) :
        /\ Config.Directories[k].FilePattern = NoPattern /\ InForce(k) = k
        /\ \E v \in Candidates(k) : Base(v) = <<"readme.md">> /\ v \in Indexed(k)

----------------------------------------------------------------------------
(* Properties of the directory trees *)

\* the path segments of a document below its source root
PartsOf(doc) == Split(doc.RelPath, "/")

\* seq without the repetitions of its elements, in first-seen order
RECURSIVE FirstSeen(_)
FirstSeen(seq) ==
    IF seq = <<>> THEN <<>>
    ELSE LET front == FirstSeen(SubSeq(seq, 1, Len(seq) - 1))
         IN  IF seq[Len(seq)] \in Range(front) THEN front ELSE Append(front, seq[Len(seq)])

\* the nodes of the tree below and with node
RECURSIVE NodesOf(_)
NodesOf(node) ==
    {node} \cup UNION { NodesOf(node.Children[c]) : c \in 1..Len(node.Children) }

\* the node reached from node by following parts: <<n>>, or <<>> for none
RECURSIVE NodeAt(_, _)
NodeAt(node, parts) ==
    IF parts = <<>> THEN <<node>>
    ELSE LET named == { c \in 1..Len(node.Children) : node.Children[c].Name = parts[1] }
         IN  IF named = {} THEN <<>>
             ELSE NodeAt(node.Children[Least(named)], Tail(parts))

\* the names that follow the segments prefix in the documents, in processing
\* order
NextNames(docs, prefix) ==
    LET below == SelectSeq(docs, LAMBDA d : /\ Len(PartsOf(d)) > Len(prefix)
                                            /\ SubSeq(PartsOf(d), 1, Len(prefix)) = prefix)
    IN  FirstSeen([i \in 1..Len(below) |-> PartsOf(below[i])[Len(prefix) + 1]])

\* the documents of the list that are of that source, in list order
DocsOf(name) == SelectSeq(Documents, LAMBDA d : d.SourceName = name)

\* the tree has the shape the claim describes for these documents
WellFormedTree(tree, docs) ==
    /\ \A n \in NodesOf(tree.Root) :
        /\ \A a, b \in 1..Len(n.Children) : a # b => n.Children[a].Name # n.Children[b].Name
        /\ [c \in 1..Len(n.Children) |-> n.Children[c].Name]
              = NextNames(docs, IF n.Path = <<>> THEN <<>> ELSE Split(n.Path, "/"))
    /\ \A i \in 1..Len(docs) :
        /\ NodeAt(tree.Root, PartsOf(docs[i])) # <<>>
        /\ NodeAt(tree.Root, PartsOf(docs[i]))[1].IsFile
        /\ NodeAt(tree.Root, PartsOf(docs[i]))[1].Document = <<docs[i]>>
        /\ \A k \in 1..(Len(PartsOf(docs[i])) - 1) :
            LET n == NodeAt(tree.Root, SubSeq(PartsOf(docs[i]), 1, k))
            IN  n # <<>> /\ ~n[1].IsFile /\ n[1].Document = <<>>

\* C14 as claimed: in every tree BuildDirectoryTrees built, no two siblings
\* have the same name, the children of every node are in the order their names
\* were first seen in document processing order, every document's path
\* segments lead from the root to a file node that references that document,
\* and every node on the way is a directory node without a Document.
C14_WellFormedTrees ==
    \A b \in 1..Len(trees) :
        \A t \in 1..Len(trees[b].Trees) :
            WellFormedTree(trees[b].Trees[t], DocsOf(trees[b].Trees[t].Name))

----------------------------------------------------------------------------
(* Properties of the document page *)

\* the requests for a document page that were answered
Answered == { k \in 2..Len(task) : task[k].kind = "doc" /\ task[k].pc = "done" }

\* C15 as claimed: a request for /doc/<d.RelPath> that is answered with a page
\* is answered with the page of d, for every document d of the list with that
\* RelPath, and a request is answered 404 exactly when its path is the RelPath
\* of no document.
C15_ServesRequestedDocument ==
    \A k \in Answered :
        /\ \A d \in 1..Len(Documents) :
            (Documents[d].RelPath = task[k].arg /\ task[k].status = 200) => task[k].i = d
        /\ task[k].status = 404 <=>
            \A d \in 1..Len(Documents) : Documents[d].RelPath # task[k].arg

----------------------------------------------------------------------------
(* Properties of a start from the cache file *)

\* the document is the cached one, without content
IsCached(doc, cached) ==
    /\ doc.Title = cached.Title /\ doc.Path = cached.Path /\ doc.RelPath = cached.RelPath
    /\ doc.DirName = cached.DirName /\ doc.SourceDir = cached.SourceDir
    /\ doc.SourceName = cached.SourceName /\ doc.AbsPath = cached.AbsPath
    /\ doc.Overview = cached.Overview /\ doc.Content = <<>>

====
